---- MODULE Spec2Model ----
\* A model of scripts/build/xmake.py: the path notation, the rule loader, the
\* graph-builder fixpoint loop, the readiness-scan scheduler and the toolchain
\* driver, as one sequential program run over a small repository.
EXTENDS Integers, Sequences, FiniteSets, TLC

VARIABLES
    files,            \* the repository: directory (relative parts) -> parsed rule file
    pc,               \* position of the script
    err,              \* the uncaught Python exception that ended the run, or "none"
    idx,              \* position of the running for loop in prop_dict.items()
    size,             \* xmake.py:142
    prop_dict,        \* xmake.py:137, an insertion-ordered dict
    new_dict,         \* xmake.py:145
    loaded_prefixes,  \* xmake.py:135
    targets,          \* xmake.py:140
    done_targets,     \* xmake.py:156
    cmds,             \* every command handed to subprocess.run, with its exit status
    loads,            \* every prefix load_prefix was called with, in call order
    grew,             \* history: the running scheduler pass executed some target
    pass_loaded,      \* history: loaded_prefixes at the last test of the builder loop
    sched_pass,       \* history: "none", "first" or "later" scheduler pass begun
    probe,            \* arguments the path functions are applied to on their own
    result            \* what they returned

vars == <<files, pc, err, idx, size, prop_dict, new_dict, loaded_prefixes,
          targets, done_targets, cmds, loads, grew, pass_loaded, sched_pass,
          probe, result>>

-----------------------------------------------------------------------------
\* Bounds of the model.

\* Dependency references written in the whole repository.
MaxEdges == 2

\* Subprocesses that exit with a nonzero status in one run.
MaxFailures == 1

\* Components of a prefix or of a reference handed to a path function alone.
MaxParts == 2

-----------------------------------------------------------------------------
\* pathlib.PurePosixPath: a root ("", "/" or "//"), the parts below it, and the
\* suffix of the final part (kept apart from its stem, for with_suffix).

\* PurePath(str): a string is given by its count of leading slashes and its
\* components.  Exactly two leading slashes are kept, three or more collapse.
PurePath(s) ==
    [root  |-> IF s.slashes = 0 THEN "" ELSE IF s.slashes = 2 THEN "//" ELSE "/",
     parts |-> s.parts, suffix |-> s.suffix]

\* PurePath.__truediv__: an absolute right operand replaces the left one.
Join(p, q) ==
    IF q.root # "" THEN q
    ELSE IF q.parts = <<>> THEN p
    ELSE [root |-> p.root, parts |-> p.parts \o q.parts, suffix |-> q.suffix]

is_absolute(p) == p.root # ""

Parent(p) ==
    IF p.parts = <<>> THEN p
    ELSE [p EXCEPT !.parts = SubSeq(p.parts, 1, Len(p.parts) - 1), !.suffix = ""]

\* PurePath.name, as a relative path of one part.
Name(p) == [root |-> "", parts |-> <<p.parts[Len(p.parts)]>>, suffix |-> p.suffix]

with_suffix(p, sfx) == [p EXCEPT !.suffix = sfx]

IsPrefixOf(s, t) == Len(s) <= Len(t) /\ SubSeq(t, 1, Len(s)) = s

\* PurePath.relative_to: raises ValueError unless the anchors agree and base
\* is a leading part of p.
CanRelativeTo(p, base) == p.root = base.root /\ IsPrefixOf(base.parts, p.parts)

RelativeTo(p, base) ==
    [root |-> "", parts |-> SubSeq(p.parts, Len(base.parts) + 1, Len(p.parts)),
     suffix |-> IF Len(p.parts) > Len(base.parts) THEN p.suffix ELSE ""]

Str(slashes, parts, suffix) == [slashes |-> slashes, parts |-> parts, suffix |-> suffix]

SlashSlash == PurePath(Str(2, <<>>, ""))

\* The file system: the checkout, the directory holding CONFIG, and cwd.
Cwd == PurePath(Str(1, <<"home", "repo", "a">>, ""))

HasConfig(d) == d.parts = <<"home", "repo">>

RECURSIVE repo_walk(_)
repo_walk(d) == IF HasConfig(d) THEN d ELSE repo_walk(Parent(d))

repo_abs_path == repo_walk(Cwd)

curr_rel_path == RelativeTo(Cwd, repo_abs_path)

prefix_to_rel_path(prefix) == RelativeTo(prefix, SlashSlash)

\* '/' in place of '//' at xmake.py:34.
rel_path_to_prefix_single(rel_path) == Join(PurePath(Str(1, <<>>, "")), rel_path)

rel_path_to_prefix(rel_path) == Join(SlashSlash, rel_path)

prefix_to_abs_path(prefix) == Join(repo_abs_path, prefix_to_rel_path(prefix))

curr_prefix == rel_path_to_prefix(curr_rel_path)

OUTDIR == PurePath(Str(0, <<".out">>, ""))

prefix_to_abs_out_name(prefix) ==
    LET abs_path == prefix_to_abs_path(prefix)
    IN  Join(Join(Parent(abs_path), OUTDIR), Name(abs_path))

-----------------------------------------------------------------------------
\* Insertion-ordered dicts: a sequence of <<key, props>> entries, keys distinct.

Keys(d) == {d[i].key : i \in 1..Len(d)}

Get(d, k) == d[CHOOSE i \in 1..Len(d) : d[i].key = k].props

\* d[k] = v: an existing key keeps its position.
Put(d, k, v) ==
    IF k \in Keys(d)
    THEN [i \in 1..Len(d) |-> IF d[i].key = k THEN [key |-> k, props |-> v] ELSE d[i]]
    ELSE Append(d, [key |-> k, props |-> v])

RECURSIVE Update(_, _)
Update(d, e) ==
    IF e = <<>> THEN d ELSE Update(Put(d, Head(e).key, Head(e).props), Tail(e))

-----------------------------------------------------------------------------
\* The repositories the runs are drawn from.  A rule file is a sequence of
\* [name, props] entries in file order (yaml.safe_load keeps it); props is the
\* parsed mapping, a function whose domain is the set of keys written.

FILENAME == PurePath(Str(0, <<"xmake">>, ".yml"))

\* The strings a 'deps' list is written with: bare names and //-rooted targets.
RefStrings ==
    << Str(0, <<"x">>, ""), Str(0, <<"y">>, ""),
       Str(2, <<"a", "x">>, ""), Str(2, <<"b", "x">>, ""), Str(2, <<"c", "x">>, "") >>

NoFile == [d \in {} |-> d]

DirA == <<"home", "repo", "a">>
DirB == <<"home", "repo", "b">>
DirC == <<"home", "repo", "c">>

\* Which directories hold a rule file, and the names each declares.
Layouts ==
    { la @@ lb @@ lc :
        la \in {NoFile, DirA :> <<"x">>, DirA :> <<"x", "y">>},
        lb \in {DirB :> <<>>, DirB :> <<"x">>},
        lc \in {NoFile, DirC :> <<"x">>} }

Slots(lay) == UNION {{<<d, i>> : i \in 1..Len(lay[d])} : d \in DOMAIN lay}

RECURSIVE SubsetsUpTo(_, _)
SubsetsUpTo(S, k) ==
    IF k = 0 THEN {{}}
    ELSE LET r == SubsetsUpTo(S, k - 1) IN r \cup {s \cup {e} : s \in r, e \in S}

\* The 'deps' list of a slot: the chosen strings, in the order of RefStrings.
RECURSIVE DepList(_, _, _)
DepList(edges, slot, i) ==
    IF i > Len(RefStrings) THEN <<>>
    ELSE (IF <<slot, i>> \in edges THEN <<RefStrings[i]>> ELSE <<>>)
         \o DepList(edges, slot, i + 1)

\* A rule as written.  The executable carries main and srcs; a target named x
\* is a library with srcs and hdrs and no main key; a target named y is a
\* minimal rule: its deps only, or, with no dependency, no key at all.
RawProps(name, deplist, isexe) ==
    LET deps == IF name = "y" /\ deplist = <<>> THEN NoFile ELSE "deps" :> deplist
    IN  IF isexe
        THEN deps @@ ("main" :> TRUE) @@ ("srcs" :> <<Str(0, <<"main">>, ".cc")>>)
        ELSE IF name = "x"
        THEN deps @@ ("srcs" :> <<Str(0, <<"x">>, ".cc")>>)
                  @@ ("hdrs" :> <<Str(0, <<"x">>, ".h")>>)
        ELSE deps

Repo(lay, edges, exe) ==
    [d \in DOMAIN lay |->
        [i \in 1..Len(lay[d]) |->
            [name  |-> Str(0, <<lay[d][i]>>, ""),
             props |-> RawProps(lay[d][i], DepList(edges, <<d, i>>, 1), exe = <<d, i>>)]]]

NoSlot == <<<<>>, 0>>

Repos ==
    UNION { { Repo(lay, edges, exe) :
                edges \in SubsetsUpTo(Slots(lay) \X (1..Len(RefStrings)), MaxEdges),
                exe \in Slots(lay) \cup {NoSlot} } :
            lay \in Layouts }

-----------------------------------------------------------------------------
\* load_prefix (xmake.py:114-132).

FileExists(path) == Parent(path).parts \in DOMAIN files /\ Name(path) = FILENAME

Elems(seq) == {seq[i] : i \in 1..Len(seq)}

\* A loader that reads props['deps'] without testing for the key.
RuleErrorStrict(props) == IF "deps" \in DOMAIN props THEN "none" ELSE "KeyError"

\* The exception one rule of a parsed file raises in the loop of
\* xmake.py:121-131: none, whatever keys the rule has ('deps' is tested for
\* at line 125 before it is read).
RuleError(props) == "none"

\* yaml.safe_load of the rule file of a directory (read only once open succeeded).
RulesAt(dir) == IF dir \in DOMAIN files THEN files[dir] ELSE <<>>

\* A loader that takes a missing rule file for an empty one.
LoadErrorMissingIgnored(prefix) ==
    IF ~CanRelativeTo(prefix, SlashSlash) THEN "ValueError" ELSE "none"

\* The exception load_prefix dies with, or "none": relative_to at line 117,
\* open at line 119, then the rules in file order.
LoadError(prefix) ==
    IF ~CanRelativeTo(prefix, SlashSlash) THEN "ValueError"
    ELSE IF ~FileExists(Join(Join(repo_abs_path, prefix_to_rel_path(prefix)), FILENAME))
    THEN "FileNotFoundError"
    ELSE LET rules == RulesAt(prefix_to_abs_path(prefix).parts)
             bad   == {i \in 1..Len(rules) : RuleError(rules[i].props) # "none"}
         IN  IF bad = {} THEN "none"
             ELSE RuleError(rules[CHOOSE i \in bad : \A j \in bad : i <= j].props)

\* xmake.py:125: a rule with no 'deps' key gets the empty list.
DepsOf(props) == IF "deps" \in DOMAIN props THEN props["deps"] ELSE <<>>

\* The is_absolute test of xmake.py:127 dropped: the reference is always
\* appended to the prefix.
CanonicalConcat(prefix, dep) ==
    LET dep_path == PurePath(dep)
    IN  [root |-> prefix.root, parts |-> prefix.parts \o dep_path.parts,
         suffix |-> dep_path.suffix]

\* xmake.py:126-128.
Canonical(prefix, dep) ==
    LET dep_path == PurePath(dep)
    IN  IF is_absolute(dep_path) THEN dep_path ELSE Join(prefix, dep_path)

\* xmake.py:129: props['deps'] = set(canonical_deps); the other keys stay.
LoadedProps(prefix, props) ==
    [k \in DOMAIN props \cup {"deps"} |->
        IF k = "deps" THEN {Canonical(prefix, dep) : dep \in Elems(DepsOf(props))}
        ELSE props[k]]

RECURSIVE LoadRules(_, _, _)
LoadRules(prefix, rules, d) ==
    IF rules = <<>> THEN d
    ELSE LoadRules(prefix, Tail(rules),
                   Put(d, Join(prefix, PurePath(Head(rules).name)),
                       LoadedProps(prefix, Head(rules).props)))

\* The returned dict, when LoadError(prefix) = "none".
load_prefix(prefix) ==
    LoadRules(prefix, RulesAt(prefix_to_abs_path(prefix).parts), <<>>)

-----------------------------------------------------------------------------
\* do_cpp (xmake.py:53-111) and cmd_run (xmake.py:48-50).

\* The defaults assigned whether or not the key is present.
DoCppPropsReset(props) ==
    [k \in DOMAIN props \cup {"main", "hdrs", "srcs"} |->
        IF k = "main" THEN FALSE
        ELSE IF k \in {"hdrs", "srcs"} THEN <<>>
        ELSE props[k]]

\* xmake.py:63-68: the defaults are written into the record passed in.
DoCppProps(props) ==
    [k \in DOMAIN props \cup {"main", "hdrs", "srcs"} |->
        IF k \in DOMAIN props THEN props[k]
        ELSE IF k = "main" THEN FALSE ELSE <<>>]

rule_dir(name) == Parent(prefix_to_abs_path(name))

target_out(name) == Join(rule_dir(name), OUTDIR)

dot_o(name, src) == with_suffix(Join(target_out(name), PurePath(src)), ".o")

dot_a(dep) == with_suffix(prefix_to_abs_out_name(dep), ".a")

\* xmake.py:83-96: one compiler command per source, in order.
CompileCmds(name, srcs) ==
    [i \in 1..Len(srcs) |->
        [target |-> name, tool |-> "clang++", step |-> "compile",
         inputs |-> {Join(rule_dir(name), PurePath(srcs[i]))},
         out    |-> dot_o(name, srcs[i])]]

\* xmake.py:99-103 dropped: the source objects only.
ObjectsOwnOnly(name, p) == {dot_o(name, src) : src \in Elems(p["srcs"])}

\* xmake.py:97-103: the source objects, then one archive per dependency (the
\* list is kept as the set of its members).
Objects(name, p) ==
    {dot_o(name, src) : src \in Elems(p["srcs"])} \cup {dot_a(dep) : dep \in p["deps"]}

\* xmake.py:106-111.
FinalCmd(name, p) ==
    IF p["main"]
    THEN [target |-> name, tool |-> "clang++", step |-> "link",
          inputs |-> Objects(name, p), out |-> prefix_to_abs_out_name(name)]
    ELSE [target |-> name, tool |-> "ar", step |-> "archive",
          inputs |-> Objects(name, p), out |-> dot_a(name)]

\* The commands of do_cpp(name, props), in the order they are run.
DoCppCmds(name, props) ==
    LET p == DoCppProps(props)
    IN  Append(CompileCmds(name, p["srcs"]), FinalCmd(name, p))

\* subprocess.run(command) at xmake.py:50 is called without check=True: the
\* exit status of the child is dropped and cmd_run returns normally.
CmdRunRaises(status) == FALSE

Failures(log) == Cardinality({i \in 1..Len(log) : log[i].status # 0})

\* The commands with the exit status each child ends with: nonzero for the
\* commands at the positions in failing.
WithStatus(commands, failing) ==
    [i \in 1..Len(commands) |->
        [target |-> commands[i].target, tool |-> commands[i].tool,
         step |-> commands[i].step, inputs |-> commands[i].inputs,
         out |-> commands[i].out, status |-> IF i \in failing THEN 1 ELSE 0]]

\* The commands do_cpp gets to run: up to the first one cmd_run raises on.
RunUntilRaise(run) ==
    LET raising == {i \in 1..Len(run) : CmdRunRaises(run[i].status)}
    IN  IF raising = {} THEN run
        ELSE SubSeq(run, 1, CHOOSE i \in raising : \A j \in raising : i <= j)

Raised(run) == \E i \in 1..Len(run) : CmdRunRaises(run[i].status)

-----------------------------------------------------------------------------
\* The script (xmake.py:135-166).

\* The values of probe and result in a run of the script.
NoProbe == [p |-> SlashSlash, q |-> SlashSlash, d |-> Str(0, <<>>, "")]

NoResult == [kind |-> "none"]

Init ==
    /\ files \in Repos
    /\ pc = "start"
    /\ err = "none"
    /\ idx = 0
    /\ size = 0
    /\ prop_dict = <<>>
    /\ new_dict = <<>>
    /\ loaded_prefixes = {}
    /\ targets = {}
    /\ done_targets = {}
    /\ cmds = <<>>
    /\ loads = <<>>
    /\ grew = FALSE
    /\ pass_loaded = {}
    /\ sched_pass = "none"
    /\ probe = NoProbe
    /\ result = NoResult

\* xmake.py:135-142.
Start ==
    /\ pc = "start"
    /\ loads' = Append(loads, curr_prefix)
    /\ IF LoadError(curr_prefix) # "none"
       THEN /\ pc' = "error"
            /\ err' = LoadError(curr_prefix)
            /\ UNCHANGED <<prop_dict, loaded_prefixes>>
       ELSE /\ pc' = "build_while"
            /\ prop_dict' = load_prefix(curr_prefix)
            /\ loaded_prefixes' = {curr_prefix}
            /\ UNCHANGED err
    /\ UNCHANGED <<files, probe, result, sched_pass, idx, size, new_dict, targets, done_targets, cmds, grew,
                   pass_loaded>>

\* A size that is off by one never equals len(prop_dict).
NextSizeOffByOne(d) == Len(d) - 1

\* xmake.py:144.
NextSize(d) == Len(d)

\* xmake.py:143-145: the loop test holds, a pass begins.

BuildEnter ==
    /\ pc = "build_while"
    /\ size # Len(prop_dict)
    /\ size' = NextSize(prop_dict)
    /\ new_dict' = <<>>
    /\ idx' = 1
    /\ pc' = "build_for"
    /\ pass_loaded' = loaded_prefixes
    /\ UNCHANGED <<files, probe, result, sched_pass, err, prop_dict, loaded_prefixes, targets, done_targets,
                   cmds, loads, grew>>

\* The membership test of xmake.py:150 inverted.
NeedsLoadInverted(prefix, loaded) == prefix \in loaded

\* The membership test of xmake.py:150 dropped: every dependency loads.
NeedsLoadAlways(prefix, loaded) == TRUE

\* xmake.py:150.
NeedsLoad(prefix, loaded) == prefix \notin loaded

\* The directory above the owning directory.
DepPrefixGrand(dep) == Parent(Parent(dep))

\* xmake.py:149: the owning directory of a dependency.
DepPrefix(dep) == Parent(dep)

\* xmake.py:148-152 over the dependencies in iteration order `order`; st is
\* [new_dict, loaded, loads, err].
RECURSIVE LoadDeps(_, _)
LoadDeps(order, st) ==
    IF order = <<>> \/ st.err # "none" THEN st
    ELSE LET prefix == DepPrefix(Head(order))
         IN  IF ~NeedsLoad(prefix, st.loaded) THEN LoadDeps(Tail(order), st)
             ELSE IF LoadError(prefix) # "none"
             THEN [st EXCEPT !.err = LoadError(prefix), !.loads = Append(@, prefix)]
             ELSE LoadDeps(Tail(order),
                           [new_dict |-> Update(st.new_dict, load_prefix(prefix)),
                            loaded   |-> st.loaded \cup {prefix},
                            loads    |-> Append(st.loads, prefix),
                            err      |-> "none"])

\* The orders a set can be iterated in.
Orders(S) ==
    {o \in [1..Cardinality(S) -> S] : \A i, j \in 1..Cardinality(S) : o[i] = o[j] => i = j}

\* targets.add(target) of xmake.py:153 dropped.
TargetsKeep(ts, target) == ts

\* xmake.py:153.
TargetsAdd(ts, target) == ts \cup {target}

\* xmake.py:146-153: one iteration of the for loop.
BuildVisit ==
    /\ pc = "build_for"
    /\ idx <= Len(prop_dict)
    /\ \E order \in Orders(prop_dict[idx].props["deps"]) :
         LET r == LoadDeps(order, [new_dict |-> new_dict, loaded |-> loaded_prefixes,
                                   loads |-> loads, err |-> "none"])
         IN  /\ new_dict' = r.new_dict
             /\ loaded_prefixes' = r.loaded
             /\ loads' = r.loads
             /\ err' = r.err
             /\ IF r.err # "none"
                THEN pc' = "error" /\ UNCHANGED <<idx, targets>>
                ELSE /\ targets' = TargetsAdd(targets, prop_dict[idx].key)
                     /\ idx' = idx + 1
                     /\ UNCHANGED pc
    /\ UNCHANGED <<files, probe, result, sched_pass, size, prop_dict, done_targets, cmds, grew, pass_loaded>>

\* xmake.py:154: the for loop is exhausted.
BuildPassEnd ==
    /\ pc = "build_for"
    /\ idx > Len(prop_dict)
    /\ prop_dict' = Update(prop_dict, new_dict)
    /\ pc' = "build_while"
    /\ UNCHANGED <<files, probe, result, sched_pass, err, idx, size, new_dict, loaded_prefixes, targets,
                   done_targets, cmds, loads, grew, pass_loaded>>

\* xmake.py:143 fails, xmake.py:156.
BuildExit ==
    /\ pc = "build_while"
    /\ size = Len(prop_dict)
    /\ done_targets' = {}
    /\ pc' = "sched_while"
    /\ UNCHANGED <<files, probe, result, sched_pass, err, idx, size, prop_dict, new_dict, loaded_prefixes,
                   targets, cmds, loads, grew, pass_loaded>>

\* xmake.py:159: the loop test holds, a pass begins.
SchedEnter ==
    /\ pc = "sched_while"
    /\ targets # done_targets
    /\ idx' = 1
    /\ grew' = FALSE
    /\ sched_pass' = (IF sched_pass = "none" THEN "first" ELSE "later")
    /\ pc' = "sched_for"
    /\ UNCHANGED <<files, probe, result, err, size, prop_dict, new_dict, loaded_prefixes, targets,
                   done_targets, cmds, loads, pass_loaded>>

\* all() replaced by any(): a target with no dependency is never ready.
ReadyAny(target, deps, done) == (\E dep \in deps : dep \in done) /\ target \notin done

\* The readiness test without its dependency part.
ReadyNoDeps(target, deps, done) == target \notin done

\* The 'target not in done_targets' part of xmake.py:163 dropped.
ReadyAgain(target, deps, done) == \A dep \in deps : dep \in done

\* xmake.py:162-163.
Ready(target, deps, done) == (\A dep \in deps : dep \in done) /\ target \notin done

\* The completion set overwritten instead of added to.
DoneOverwrite(done, target) == {target}

\* xmake.py:166.
DoneAdd(done, target) == done \cup {target}

\* xmake.py:160-166: one iteration of the for loop, do_cpp included.
SchedVisit ==
    /\ pc = "sched_for"
    /\ idx <= Len(prop_dict)
    /\ LET target == prop_dict[idx].key
           props  == prop_dict[idx].props
           todo   == DoCppCmds(target, props)
       IN  IF Ready(target, props["deps"], done_targets)
           THEN \E failing \in SUBSET (1..Len(todo)) :
                  LET run == RunUntilRaise(WithStatus(todo, failing))
                  IN  /\ Failures(cmds) + Cardinality(failing) <= MaxFailures
                      /\ cmds' = cmds \o run
                      /\ prop_dict' = Put(prop_dict, target, DoCppProps(props))
                      /\ grew' = TRUE
                      /\ IF Raised(run)
                         THEN /\ pc' = "error"
                              /\ err' = "CalledProcessError"
                              /\ UNCHANGED <<idx, done_targets>>
                         ELSE /\ done_targets' = DoneAdd(done_targets, target)
                              /\ idx' = idx + 1
                              /\ UNCHANGED <<pc, err>>
           ELSE /\ idx' = idx + 1
                /\ UNCHANGED <<pc, err, prop_dict, done_targets, cmds, grew>>
    /\ UNCHANGED <<files, probe, result, sched_pass, size, new_dict, loaded_prefixes, targets, loads, pass_loaded>>

\* The for loop of xmake.py:160 is exhausted.
SchedPassEnd ==
    /\ pc = "sched_for"
    /\ idx > Len(prop_dict)
    /\ pc' = "sched_while"
    /\ UNCHANGED <<files, probe, result, sched_pass, err, idx, size, prop_dict, new_dict, loaded_prefixes,
                   targets, done_targets, cmds, loads, grew, pass_loaded>>

\* xmake.py:159 fails: the script ends.
SchedExit ==
    /\ pc = "sched_while"
    /\ targets = done_targets
    /\ pc' = "done"
    /\ UNCHANGED <<files, probe, result, sched_pass, err, idx, size, prop_dict, new_dict, loaded_prefixes,
                   targets, done_targets, cmds, loads, grew, pass_loaded>>

Next ==
    \/ Start
    \/ BuildEnter
    \/ BuildVisit
    \/ BuildPassEnd
    \/ BuildExit
    \/ SchedEnter
    \/ SchedVisit
    \/ SchedPassEnd
    \/ SchedExit

Spec == Init /\ [][Next]_vars

\* The runs the termination properties are checked on: one target per
\* directory, no executable, the third directory with or without a rule file.
LiveRepos ==
    UNION { { Repo(lay, edges, NoSlot) :
                edges \in SubsetsUpTo(Slots(lay) \X (1..Len(RefStrings)), MaxEdges) } :
            lay \in {l \in Layouts : DirA \in DOMAIN l /\ Len(l[DirA]) = 1 /\ Len(l[DirB]) = 1} }

LiveInit == Init /\ files \in LiveRepos

\* The script is one sequential process: whenever a step is possible it is taken.
FairSpec == LiveInit /\ [][Next]_vars /\ WF_vars(Next)

-----------------------------------------------------------------------------
\* The path functions applied on their own: canonicalisation of a reference
\* (xmake.py:126-128) and the prefix/path conversions (xmake.py:25-38), over
\* every prefix and reference of at most MaxParts components.

\* os.fspath of a PurePath: what PurePath(path) parses again.
fspath(p) ==
    Str(IF p.root = "//" THEN 2 ELSE IF p.root = "/" THEN 1 ELSE 0, p.parts, p.suffix)

PartSeqs(S) == UNION {[1..n -> S] : n \in 0..MaxParts}

\* '//'-rooted prefixes, and the same written with one slash (not a prefix:
\* relative_to('//') raises on them).
ProbePrefixes ==
    {PurePath(Str(s, parts, "")) : s \in {1, 2}, parts \in PartSeqs({"a", "b"})}

\* Bare and rooted references, with one to three leading slashes.
ProbeRefs == {Str(s, parts, "") : s \in 0..3, parts \in PartSeqs({"b", "x"})}

PathInit ==
    /\ files = [d \in {<<>>} |-> <<>>]
    /\ pc = "path"
    /\ err = "none"
    /\ idx = 0
    /\ size = 0
    /\ prop_dict = <<>>
    /\ new_dict = <<>>
    /\ loaded_prefixes = {}
    /\ targets = {}
    /\ done_targets = {}
    /\ cmds = <<>>
    /\ loads = <<>>
    /\ grew = FALSE
    /\ pass_loaded = {}
    /\ sched_pass = "none"
    /\ probe \in [p : ProbePrefixes, q : ProbePrefixes, d : ProbeRefs]
    /\ result = NoResult

\* xmake.py:126-128 applied to d under p, and again to the outcome under q.
Canonicalize ==
    /\ pc = "path"
    /\ result = NoResult
    /\ LET once == Canonical(probe.p, probe.d)
       IN  result' = [kind |-> "canonical", once |-> once,
                      twice |-> Canonical(probe.q, fspath(once))]
    /\ UNCHANGED <<files, pc, err, idx, size, prop_dict, new_dict, loaded_prefixes,
                   targets, done_targets, cmds, loads, grew, pass_loaded, sched_pass,
                   probe>>

\* xmake.py:25-34: p to its relative path and back; and xmake.py:29-30 with
\* 20-22 and 37-38: p to its absolute path and back to a prefix.
RoundTrip ==
    /\ pc = "path"
    /\ result = NoResult
    /\ CanRelativeTo(probe.p, SlashSlash)
    /\ LET rel_path == prefix_to_rel_path(probe.p)
           abs_path == prefix_to_abs_path(probe.p)
       IN  result' = [kind |-> "roundtrip", rel |-> rel_path,
                      back |-> rel_path_to_prefix(rel_path),
                      via_abs |-> rel_path_to_prefix(
                                      RelativeTo(abs_path, repo_abs_path))]
    /\ UNCHANGED <<files, pc, err, idx, size, prop_dict, new_dict, loaded_prefixes,
                   targets, done_targets, cmds, loads, grew, pass_loaded, sched_pass,
                   probe>>

\* xmake.py:26: relative_to raises ValueError.
RoundTripRaises ==
    /\ pc = "path"
    /\ result = NoResult
    /\ ~CanRelativeTo(probe.p, SlashSlash)
    /\ result' = [kind |-> "ValueError"]
    /\ UNCHANGED <<files, pc, err, idx, size, prop_dict, new_dict, loaded_prefixes,
                   targets, done_targets, cmds, loads, grew, pass_loaded, sched_pass,
                   probe>>

PathNext == Canonicalize \/ RoundTrip \/ RoundTripRaises

PathSpec == PathInit /\ [][PathNext]_vars

-----------------------------------------------------------------------------
\* The dependency graph, read from the rule files and from prop_dict.

BuildPcs == {"start", "build_while", "build_for"}
SchedPcs == {"sched_while", "sched_for"}

HasRuleFile(prefix) ==
    /\ CanRelativeTo(prefix, SlashSlash)
    /\ prefix_to_abs_path(prefix).parts \in DOMAIN files

RulesOf(prefix) == IF HasRuleFile(prefix) THEN files[prefix_to_abs_path(prefix).parts] ELSE <<>>

\* The identifiers the rule file of a directory declares.
DeclaredIn(prefix) == {Join(prefix, PurePath(r.name)) : r \in Elems(RulesOf(prefix))}

Declared(id) == id \in DeclaredIn(Parent(id))

\* The canonical dependencies the rule file gives a declared identifier.
FileDeps(id) ==
    UNION { {Canonical(Parent(id), dep) : dep \in Elems(DepsOf(r.props))} :
            r \in {q \in Elems(RulesOf(Parent(id))) : Join(Parent(id), PurePath(q.name)) = id} }

RECURSIVE ReachFrom(_)
ReachFrom(S) ==
    LET more == S \cup UNION {FileDeps(id) : id \in S}
    IN  IF more = S THEN S ELSE ReachFrom(more)

\* Every identifier reachable over dependency edges from the start directory.
ReachableIds == ReachFrom(DeclaredIn(curr_prefix))

GraphDeps(k) == Get(prop_dict, k)["deps"]

RECURSIVE GraphReach(_)
GraphReach(S) ==
    LET more == S \cup UNION {GraphDeps(k) : k \in S \cap Keys(prop_dict)}
    IN  IF more = S THEN S ELSE GraphReach(more)

Acyclic == \A k \in Keys(prop_dict) : k \notin GraphReach(GraphDeps(k))

FullyDefined == \A k \in Keys(prop_dict) : GraphDeps(k) \subseteq Keys(prop_dict)

HasRuleWithoutDeps(prefix) == \E r \in Elems(RulesOf(prefix)) : "deps" \notin DOMAIN r.props

-----------------------------------------------------------------------------
\* C1: on an acyclic, fully defined graph the scheduler loop terminates, and
\* it ends with done_targets equal to the discovered target set.
C1_SchedulerTerminates ==
    (pc = "sched_while" /\ Acyclic /\ FullyDefined)
        ~> (pc = "done" /\ done_targets = targets)

C1_Witness ==
    /\ pc = "done"
    /\ Acyclic /\ FullyDefined
    /\ Cardinality(done_targets) >= 3
    /\ \E k \in Keys(prop_dict) : Cardinality(GraphDeps(k)) = 2

\* C2: do_cpp is started for a target, and the target enters done_targets,
\* only in a state where all its canonical dependencies are in done_targets.
C2_ReadinessOrdering ==
    [][\A t \in (done_targets' \ done_targets)
                \cup {cmds'[i].target : i \in (Len(cmds) + 1)..Len(cmds')} :
          GraphDeps(t) \subseteq done_targets]_vars

C2_Witness ==
    \E k \in done_targets :
        /\ GraphDeps(k) # {}
        /\ \E i \in 1..Len(prop_dict) :
             /\ prop_dict[i].key \in GraphDeps(k)
             /\ \E j \in 1..(i - 1) : prop_dict[j].key = k

\* C3: a full scheduler pass that completes no pending target ends the run in
\* the error state.
C3_NoProgressPassIsError ==
    [][(pc = "sched_for" /\ idx > Len(prop_dict) /\ ~grew /\ targets # done_targets)
         => pc' = "error"]_vars

\* C4: a run whose graph has a dependency on an identifier that its
\* directory's rule file does not define ends in the error state.
C4_UndefinedTargetIsError ==
    (pc = "sched_while"
       /\ \E k \in Keys(prop_dict) : \E dep \in GraphDeps(k) :
            HasRuleFile(Parent(dep)) /\ ~Declared(dep))
        ~> (pc = "error")

\* C5: a subprocess that exits nonzero is the last command of the run; the
\* run is then in the error state and the target is not in done_targets.
C5_ToolchainFailureIsFatal ==
    \A i \in 1..Len(cmds) :
        cmds[i].status # 0 =>
            /\ i = Len(cmds)
            /\ pc = "error"
            /\ cmds[i].target \notin done_targets

\* C6 (as claimed): once the builder loop has ended, every dependency of
\* every graph entry, and so every identifier reachable from the start
\* directory's targets, has an entry in prop_dict.
C6_GraphClosure ==
    pc \in SchedPcs \cup {"done"} =>
        /\ DeclaredIn(curr_prefix) \subseteq Keys(prop_dict)
        /\ ReachableIds \subseteq Keys(prop_dict)

\* C6 (amended): once the builder loop has ended, every reachable identifier
\* that its directory's rule file declares has an entry in prop_dict, and the
\* owning directory of every reachable identifier is in loaded_prefixes.
C6_GraphClosureDeclared ==
    pc \in SchedPcs \cup {"done"} =>
        /\ DeclaredIn(curr_prefix) \subseteq Keys(prop_dict)
        /\ \A id \in ReachableIds :
             /\ Parent(id) \in loaded_prefixes
             /\ Declared(id) => id \in Keys(prop_dict)

C6_Witness ==
    /\ pc = "sched_while"
    /\ Cardinality(loaded_prefixes) = 3
    /\ \E id \in ReachableIds : ~Declared(id)
    /\ \E id \in ReachableIds : Declared(id) /\ Parent(id) # curr_prefix

\* C7: the builder loop terminates; whenever its test lets another pass
\* begin, loaded_prefixes has strictly grown since the previous test (a pass
\* that loads nothing ends the loop).
C7_BuilderTerminates ==
    /\ [](pc = "build_while" /\ size # Len(prop_dict)
            => pass_loaded \subseteq loaded_prefixes /\ pass_loaded # loaded_prefixes)
    /\ <>(pc \notin BuildPcs)

C7_Witness ==
    /\ pc = "build_while"
    /\ size # Len(prop_dict)
    /\ Cardinality(pass_loaded) = 2

MissingRuleFile ==
    \E prefix \in {curr_prefix} \cup {Parent(id) : id \in ReachableIds} : ~HasRuleFile(prefix)

C9_LoadErrorAbortsBeforeExecution ==
    MissingRuleFile =>
        /\ pc \in BuildPcs \cup {"error"}
        /\ pc = "error" => err = "FileNotFoundError"
        /\ cmds = <<>>
        /\ done_targets = {}

C9_Witness ==
    /\ pc = "error"
    /\ err = "FileNotFoundError"
    /\ Len(loads) = 3

\* C10: done_targets never loses a member and stays within targets.
C10_CompletionSetGrows ==
    [][done_targets \subseteq done_targets' /\ done_targets' \subseteq targets']_vars

C10_Witness ==
    /\ pc = "sched_for"
    /\ Cardinality(done_targets) >= 2
    /\ done_targets # targets

\* C11: load_prefix is called at most once for a prefix: the calls made so
\* far name pairwise different prefixes, the start prefix and a directory that
\* several dependencies refer to included, and every loaded prefix was called.
C11_LoadedOnce ==
    /\ \A i, j \in 1..Len(loads) : loads[i] = loads[j] => i = j
    /\ loaded_prefixes \subseteq Elems(loads)

C11_Witness ==
    /\ pc \in SchedPcs
    /\ Len(loads) >= 2
    /\ \E k1, k2 \in Keys(prop_dict) :
         /\ k1 # k2
         /\ \E d1 \in GraphDeps(k1), d2 \in GraphDeps(k2) :
              /\ Parent(d1) = Parent(d2)
              /\ Parent(d1) # curr_prefix
              /\ Parent(d1) \in loaded_prefixes
              /\ Parent(k1) = curr_prefix /\ Parent(k2) = curr_prefix

\* The outputs of the compile commands run for a target.
CompiledObjects(t) ==
    {cmds[j].out : j \in {n \in 1..Len(cmds) : cmds[n].target = t /\ cmds[n].step = "compile"}}

\* C12, as stated: the inputs of a library's archive command are objects
\* compiled from its own sources only, no dependency's archive among them.
C12_ArchiveOwnObjectsOnly ==
    \A i \in 1..Len(cmds) :
        cmds[i].step = "archive" =>
            /\ cmds[i].inputs \subseteq CompiledObjects(cmds[i].target)
            /\ \A inp \in cmds[i].inputs : inp.suffix # ".a"

\* C12, amended: the inputs of a library's archive command are exactly the
\* objects compiled from its own sources and the archive of each of its
\* canonical dependencies.
C12_ArchiveObjectsAndDepArchives ==
    \A i \in 1..Len(cmds) :
        cmds[i].step = "archive" =>
            cmds[i].inputs = CompiledObjects(cmds[i].target)
                                \cup {dot_a(dep) : dep \in GraphDeps(cmds[i].target)}

C12_Witness ==
    \E i \in 1..Len(cmds) :
        /\ cmds[i].step = "archive"
        /\ GraphDeps(cmds[i].target) # {}
        /\ \E inp \in cmds[i].inputs : inp.suffix = ".a"
        /\ \E inp \in cmds[i].inputs : inp.suffix = ".o"

DefaultKeys == {"main", "hdrs", "srcs"}

C14_CanonicalIdempotent ==
    result.kind = "canonical" =>
        /\ result.twice = result.once
        /\ is_absolute(result.once)
        /\ probe.d.slashes = 0 =>
              /\ CanRelativeTo(result.once, probe.p)
              /\ RelativeTo(result.once, probe.p).parts = probe.d.parts

C14_Witness ==
    /\ result.kind = "canonical"
    /\ probe.d.slashes = 0
    /\ Len(probe.d.parts) = 2
    /\ probe.q # probe.p
    /\ probe.q.parts # <<>>
    /\ result.once.parts = probe.p.parts \o probe.d.parts

\* C15: for a prefix p rooted at '//', the relative path of p turned back
\* into a prefix is p, and so is the absolute path of p turned back; the
\* conversion raises on no such p.
C15_PrefixPathRoundTrip ==
    /\ result.kind = "roundtrip" =>
          /\ result.back = probe.p
          /\ result.via_abs = probe.p
          /\ ~is_absolute(result.rel)
    /\ result.kind = "ValueError" => probe.p.root # "//"

C15_Witness ==
    /\ result.kind = "roundtrip"
    /\ Len(probe.p.parts) = 2
    /\ result.rel.parts = probe.p.parts
    /\ result.back.root = "//"

\* The final command of do_cpp was run for target t.
Executed(t) ==
    \E n \in 1..Len(cmds) : cmds[n].target = t /\ cmds[n].step \in {"link", "archive"}

\* The first scheduler pass has gone past position i of prop_dict.
FirstPassPast(i) ==
    \/ sched_pass = "later"
    \/ sched_pass = "first" /\ (pc # "sched_for" \/ i < idx)

\* C16: a target of prop_dict with no canonical dependency is executed and
\* done once the first scheduler pass has visited it, so before that pass ends.
C16_EmptyDepsDoneInFirstPass ==
    \A i \in 1..Len(prop_dict) :
        (GraphDeps(prop_dict[i].key) = {} /\ FirstPassPast(i)) =>
            /\ prop_dict[i].key \in done_targets
            /\ Executed(prop_dict[i].key)

C16_Witness ==
    /\ sched_pass = "first"
    /\ pc = "sched_while"
    /\ \E i, j \in 1..Len(prop_dict) :
         /\ i < j
         /\ prop_dict[i].key \notin done_targets
         /\ GraphDeps(prop_dict[j].key) = {}
         /\ prop_dict[j].key \in done_targets

C18_DepArchivesExistBeforeUse ==
    \A i \in 1..Len(cmds) :
        cmds[i].step \in {"link", "archive"} =>
            \A inp \in {f \in cmds[i].inputs : f.suffix = ".a"} :
                \E j \in 1..(i - 1) :
                    /\ cmds[j].step = "archive"
                    /\ cmds[j].out = inp
                    /\ cmds[j].status = 0

\* The positions in cmds of the final commands do_cpp ran for target t; do_cpp
\* runs exactly one final command per call.
DoCppCalls(t) ==
    {n \in 1..Len(cmds) : cmds[n].target = t /\ cmds[n].step \in {"link", "archive"}}

\* C19: do_cpp is called at most once per target, only for targets then put in
\* done_targets, and exactly once for every target when the script has ended
\* normally.
C19_ExecutedOnce ==
    /\ \A n \in 1..Len(cmds) :
         /\ Cardinality(DoCppCalls(cmds[n].target)) = 1
         /\ cmds[n].target \in done_targets
    /\ pc = "done" => \A t \in Keys(prop_dict) \cup targets : Cardinality(DoCppCalls(t)) = 1

C19_Witness ==
    /\ pc = "done"
    /\ sched_pass = "later"
    /\ Cardinality(targets) = 3
    /\ \A t \in targets : Cardinality(DoCppCalls(t)) = 1

\* C20: from the exit of the graph-builder loop on, targets is the key set of
\* prop_dict, the keys merged from directories loaded in a pass included; and
\* the script has ended normally only with every key done and executed.
C20_TargetsAreGraphKeys ==
    /\ pc \in SchedPcs \cup {"done"} => targets = Keys(prop_dict)
    /\ pc = "done" =>
          \A k \in Keys(prop_dict) : k \in done_targets /\ DoCppCalls(k) # {}

C20_Witness ==
    /\ pc = "done"
    /\ Cardinality(loaded_prefixes) = 3
    /\ \E k \in targets : Parent(k) # curr_prefix /\ k \in done_targets
    /\ Cardinality(targets) = Len(prop_dict)

====
